---- MODULE Spec2Model ----
(***************************************************************************)
(* Model of the two DiscordHandler implementations of discord_logging:     *)
(*   "long"    src/discord_logging/handler.py (discord_webhook client,     *)
(*             code-block / embed layout, clip_content)                    *)
(*   "minimal" src/handler.py (discord.py SyncWebhook client)              *)
(* emit is modelled statement group by statement group, one frame per      *)
(* active call, so that calls nested inside a running emit and calls of     *)
(* other threads can interleave with it.                                   *)
(***************************************************************************)
EXTENDS Integers, Sequences, FiniteSets, TLC

VARIABLES
    variant,            \* which of the two handler files the sink is built from
    colours,            \* self.colours
    emojis,             \* self.emojis
    embed_line_wrap_threshold,  \* self.embed_line_wrap_threshold
    reentry_barrier,    \* self.reentry_barrier
    threads,            \* the threads that log through the sink
    records,            \* the records the application may log
    failing,            \* the statements of emit whose collaborator may raise
    nesting,            \* the statements of emit whose collaborator logs
    stack,              \* per thread: the active emit frames, innermost last
    ret,                \* per thread: how the last finished emit ended
    calls,              \* number of top-level emit calls made so far
    content,            \* clip_content: argument content
    max_len,            \* clip_content: argument max_len
    clip_to_end,        \* clip_content: argument clip_to_end
    clipped             \* clip_content: returned value

vars == <<variant, colours, emojis, embed_line_wrap_threshold, reentry_barrier,
          threads, records, failing, nesting, stack, ret, calls,
          content, max_len, clip_to_end, clipped>>

sinkVars == <<variant, colours, emojis, embed_line_wrap_threshold, threads, records,
              failing, nesting>>
clipVars == <<content, max_len, clip_to_end, clipped>>
emitVars == <<reentry_barrier, stack, ret, calls>>

----------------------------------------------------------------------------
(* Bounds of the model *)

\* deepest nesting of emit calls on one thread
MaxDepth == 2
\* number of top-level emit calls in one behaviour
MaxCalls == 3
\* longest content handed to clip_content in the function-level check
MaxClipLen == 5
\* largest max_len handed to clip_content in the function-level check
MaxClipMax == 7
\* a non-default embed_line_wrap_threshold
SmallThreshold == 3

(* Program constants *)

\* clip_content's default max_len
DefaultMaxLen == 1900
\* the default embed_line_wrap_threshold
DefaultThreshold == 60
\* logging.DEBUG and logging.ERROR, keys of the default mappings
DEBUG == 10
ERROR == 40
\* a severity that no mapping lists
UNLISTED == ERROR + 5
\* the mappings' fallback key None, encoded as an integer no level uses
None == -1

----------------------------------------------------------------------------
(* Python strings are sequences of one-character strings. *)

NL == "\n"
\* Python's None where a string may stand
PyNone == <<"<None>">>
\* truth value of a str-or-None
Truthy(s) == s # PyNone /\ s # <<>>
\* f"{s}": None renders as the four characters None
FStr(s) == IF s = PyNone THEN <<"N", "o", "n", "e">> ELSE s

Ellipsis == <<".", ".", ".">>
\* the backquote character
BackQuote == "backquote"
Fence == <<BackQuote, BackQuote, BackQuote>>

Min(a, b) == IF a < b THEN a ELSE b
Max(a, b) == IF a > b THEN a ELSE b
SetMax(S) == CHOOSE x \in S : \A y \in S : y <= x
SetMin(S) == CHOOSE x \in S : \A y \in S : x <= y

\* s repeated until n characters are produced
Rep(s, n) == [i \in 1..n |-> s[((i - 1) % Len(s)) + 1]]

\* Python s[k:] for any integer k
SliceFrom(s, k) ==
    LET L == Len(s)
        start == IF k < 0 THEN Max(L + k, 0) ELSE Min(k, L)
    IN  SubSeq(s, start + 1, L)

\* Python s[0:k] for any integer k
SliceTo(s, k) ==
    LET L == Len(s)
        stop == IF k < 0 THEN Max(L + k, 0) ELSE Min(k, L)
    IN  SubSeq(s, 1, stop)

HasNL(msg) == \E i \in 1..Len(msg) : msg[i] = NL

NLPos(msg) == {i \in 1..Len(msg) : msg[i] = NL}

\* msg.split("\n", maxsplit=1): <<first, remainder>>, or <<msg>> without newline
SplitOnce(msg) ==
    IF HasNL(msg)
    THEN LET p == CHOOSE i \in 1..Len(msg) :
                      msg[i] = NL /\ \A j \in 1..(i - 1) : msg[j] # NL
         IN  <<SubSeq(msg, 1, p - 1), SubSeq(msg, p + 1, Len(msg))>>
    ELSE <<msg>>

\* max([len(l) for l in msg.split("\n")])
MaxLineLength(msg) ==
    LET ends == NLPos(msg) \cup {Len(msg) + 1}
        starts == NLPos(msg) \cup {0}
        lineEnd(p) == CHOOSE q \in ends :
                          q > p /\ \A r \in (p + 1)..(q - 1) : msg[r] # NL
    IN  SetMax({lineEnd(p) - p - 1 : p \in starts})

----------------------------------------------------------------------------
(* DiscordHandler.clip_content *)

clip_content_threshold_off(c, m, toEnd) ==
    IF Len(c) > m
    THEN IF toEnd THEN Ellipsis \o SliceFrom(c, -m) ELSE SliceTo(c, m) \o Ellipsis
    ELSE c

clip_content(c, m, toEnd) ==
    IF Len(c) > m - 5
    THEN IF toEnd THEN Ellipsis \o SliceFrom(c, -m) ELSE SliceTo(c, m) \o Ellipsis
    ELSE c

\* DiscordHandler.should_format_as_code_block
should_format_as_code_block(msg, threshold) ==
    IF ~HasNL(msg) /\ Len(msg) > threshold THEN TRUE ELSE HasNL(msg)

----------------------------------------------------------------------------
(* Style lookup of emit *)

Result(v) == [raised |-> FALSE, value |-> v]
KeyError == [raised |-> TRUE, value |-> 0]

\* long:    colour = self.colours.get(record.levelno) or self.colours[None]
\* minimal: colour = self.colours.get(record.levelno, self.colours[None])
ColourLookup(v, cmap, levelno) ==
    IF v = "long"
    THEN IF levelno \in DOMAIN cmap /\ cmap[levelno] # 0
         THEN Result(cmap[levelno])
         ELSE IF None \in DOMAIN cmap THEN Result(cmap[None]) ELSE KeyError
    ELSE IF None \notin DOMAIN cmap
         THEN KeyError
         ELSE IF levelno \in DOMAIN cmap
              THEN Result(cmap[levelno])
              ELSE Result(cmap[None])

\* long:    emoji = self.emojis.get(record.levelno)
\* minimal: emoji = self.emojis.get(record.levelno, "")
EmojiLookup(v, emap, levelno) ==
    IF levelno \in DOMAIN emap
    THEN emap[levelno]
    ELSE IF v = "long" THEN PyNone ELSE <<>>

\* long: if emoji: emoji += " "
EmojiSpaced(emoji) == IF Truthy(emoji) THEN emoji \o <<" ">> ELSE emoji

----------------------------------------------------------------------------
(* Message composition of emit *)

NoDiscord == [content |-> PyNone, embeds |-> <<>>]

Embed(title, description, colour) ==
    [title |-> title, description |-> description, color |-> colour]

\* the long variant, from should_format_as_code_block to add_embed
LayoutLong(emoji, msg, colour, threshold) ==
    IF should_format_as_code_block(msg, threshold)
    THEN LET parts == SplitOnce(msg)
             first == IF Len(parts) = 2 THEN parts[1] ELSE msg
             remainder == IF Len(parts) = 2 THEN parts[2] ELSE <<>>
             max_line_length == MaxLineLength(msg)
             clippedRemainder == clip_content(remainder, DefaultMaxLen, TRUE)
         IN  IF max_line_length > threshold
             THEN [content |-> Fence \o FStr(emoji)
                                 \o clip_content(msg, DefaultMaxLen, TRUE) \o Fence,
                   embeds |-> <<>>]
             ELSE [content |-> PyNone,
                   embeds |-> <<Embed(FStr(emoji) \o first, clippedRemainder, colour)>>]
    ELSE [content |-> PyNone,
          embeds |-> <<Embed(IF Truthy(emoji) THEN FStr(emoji) \o msg ELSE msg,
                             PyNone, colour)>>]

\* the minimal variant: embed = Embed(color=colour, title=msg)
LayoutMinimal(msg, colour) ==
    [content |-> PyNone, embeds |-> <<Embed(msg, PyNone, colour)>>]

----------------------------------------------------------------------------
(* emit: one frame per active call *)

NewFrame(r) ==
    [pc |-> "check", record |-> r, passed |-> FALSE,
     msg |-> PyNone, colour |-> 0, emoji |-> PyNone, discord |-> NoDiscord,
     exc |-> "none", stage |-> "none", escaping |-> FALSE,
     sent |-> <<>>, errlines |-> 0, herrs |-> 0]

\* a record logged by the webhook client's own code while emit runs
LibRecord == [levelno |-> DEBUG, msg |-> <<"r", "e", "q">>]

NoRet == [outcome |-> "none", depth |-> 0, frame |-> NewFrame(LibRecord)]

\* the statements of emit at which code outside the handler runs
CallOutPcs == {"construct", "format", "layout", "execute", "except"}

\* the statements between setting the guard and clearing it
InFlightPcs == CallOutPcs \cup {"style", "finally"}

\* order of the statements inside the try block
NextPc(v, pc) ==
    IF v = "long"
    THEN CASE pc = "set" -> "construct"
           [] pc = "construct" -> "format"
           [] pc = "format" -> "style"
           [] pc = "style" -> "layout"
           [] pc = "layout" -> "execute"
           [] pc = "execute" -> "finally"
    ELSE CASE pc = "set" -> "format"
           [] pc = "format" -> "style"
           [] pc = "style" -> "construct"
           [] pc = "construct" -> "layout"
           [] pc = "layout" -> "execute"
           [] pc = "execute" -> "finally"

\* an exception of the given kind raised by the statement the frame is at:
\* long: the client construction is outside the inner try, so only finally runs;
\* an exception inside an except block leaves through finally as well
Raise(v, f, kind) ==
    IF f.pc = "except" \/ (v = "long" /\ f.pc = "construct")
    THEN [f EXCEPT !.pc = "finally", !.exc = kind, !.stage = f.pc, !.escaping = TRUE]
    ELSE [f EXCEPT !.pc = "except", !.exc = kind, !.stage = f.pc]

Top(t) == stack[t][Len(stack[t])]

\* how the collaborator called at a statement may end: normally ("ok"), or,
\* when it is one that may raise, with one of the given failures
Outcomes(pc, failures) == {"ok"} \cup (IF pc \in failing THEN failures ELSE {})

SetTop(t, f) == stack' = [stack EXCEPT ![t] = [@ EXCEPT ![Len(@)] = f]]

\* the innermost emit of thread t ends; an exception it lets out is raised in
\* the statement of the calling emit that was running
Pop(t, outcome) ==
    LET d == Len(stack[t])
        rest == SubSeq(stack[t], 1, d - 1)
        \* a caller interrupted inside execute()/send() has issued its send
        caller == IF rest[d - 1].pc = "execute"
                  THEN [rest[d - 1] EXCEPT !.sent = Append(@, rest[d - 1].discord)]
                  ELSE rest[d - 1]
    IN  /\ ret' = [ret EXCEPT ![t] = [outcome |-> outcome, depth |-> d, frame |-> Top(t)]]
        /\ stack' = [stack EXCEPT ![t] =
                        IF outcome = "raised" /\ d > 1
                        THEN [rest EXCEPT ![d - 1] = Raise(variant, caller, "other")]
                        ELSE rest]

\* the application logs a record: logging calls emit(record)
Call(t, r) ==
    /\ stack[t] = <<>>
    /\ calls < MaxCalls
    /\ calls' = calls + 1
    /\ stack' = [stack EXCEPT ![t] = <<NewFrame(r)>>]
    /\ ret' = [ret EXCEPT ![t] = NoRet]
    /\ UNCHANGED <<reentry_barrier, sinkVars, clipVars>>

\* code called by emit (the client, the formatter, the error hook) logs a
\* record through the same sink
NestedCall(t) ==
    /\ stack[t] # <<>>
    /\ Len(stack[t]) < MaxDepth
    /\ Top(t).pc \in nesting
    /\ stack' = [stack EXCEPT ![t] = Append(@, NewFrame(LibRecord))]
    /\ UNCHANGED <<reentry_barrier, ret, calls, sinkVars, clipVars>>

\* a guard check placed inside the try block: the early return runs finally
EmitCheck_in_try(t) ==
    /\ stack[t] # <<>>
    /\ Top(t).pc = "check"
    /\ IF reentry_barrier
       THEN /\ Pop(t, "returned")
            /\ reentry_barrier' = FALSE
       ELSE /\ SetTop(t, [Top(t) EXCEPT !.pc = "set", !.passed = TRUE])
            /\ UNCHANGED <<reentry_barrier, ret>>
    /\ UNCHANGED <<calls, sinkVars, clipVars>>

\* if self.reentry_barrier: return
EmitCheck(t) ==
    /\ stack[t] # <<>>
    /\ Top(t).pc = "check"
    /\ IF reentry_barrier
       THEN /\ Pop(t, "returned")
            /\ UNCHANGED reentry_barrier
       ELSE /\ SetTop(t, [Top(t) EXCEPT !.pc = "set", !.passed = TRUE])
            /\ UNCHANGED <<reentry_barrier, ret>>
    /\ UNCHANGED <<calls, sinkVars, clipVars>>

\* self.reentry_barrier = True
EmitSet(t) ==
    /\ stack[t] # <<>>
    /\ Top(t).pc = "set"
    /\ reentry_barrier' = TRUE
    /\ SetTop(t, [Top(t) EXCEPT !.pc = NextPc(variant, "set")])
    /\ UNCHANGED <<ret, calls, sinkVars, clipVars>>

\* long: DiscordWebhook(url=...); minimal: SyncWebhook.from_url(self.webhook_url)
EmitConstruct(t) ==
    /\ stack[t] # <<>>
    /\ Top(t).pc = "construct"
    /\ \E outcome \in Outcomes("construct", {"other"}) :
          SetTop(t, IF outcome = "ok"
                    THEN [Top(t) EXCEPT !.pc = NextPc(variant, "construct")]
                    ELSE Raise(variant, Top(t), outcome))
    /\ UNCHANGED <<reentry_barrier, ret, calls, sinkVars, clipVars>>

\* msg = self.format(record)
EmitFormat(t) ==
    /\ stack[t] # <<>>
    /\ Top(t).pc = "format"
    /\ \E outcome \in Outcomes("format", {"other"}) :
          SetTop(t, IF outcome = "ok"
                    THEN [Top(t) EXCEPT !.pc = NextPc(variant, "format"),
                                        !.msg = Top(t).record.msg]
                    ELSE Raise(variant, Top(t), outcome))
    /\ UNCHANGED <<reentry_barrier, ret, calls, sinkVars, clipVars>>

\* the colour and emoji lookup, and the emoji prefix
EmitStyle(t) ==
    /\ stack[t] # <<>>
    /\ Top(t).pc = "style"
    /\ LET f == Top(t)
           c == ColourLookup(variant, colours, f.record.levelno)
           e == EmojiLookup(variant, emojis, f.record.levelno)
       IN  SetTop(t, IF c.raised
                     THEN Raise(variant, f, "other")
                     ELSE IF variant = "long"
                          THEN [f EXCEPT !.pc = NextPc(variant, "style"),
                                         !.colour = c.value,
                                         !.emoji = EmojiSpaced(e)]
                          ELSE [f EXCEPT !.pc = NextPc(variant, "style"),
                                         !.colour = c.value,
                                         !.emoji = e,
                                         !.msg = IF Truthy(e)
                                                 THEN e \o <<" ">> \o f.msg
                                                 ELSE f.msg])
    /\ UNCHANGED <<reentry_barrier, ret, calls, sinkVars, clipVars>>

\* the content or the embed of the message
EmitLayout(t) ==
    /\ stack[t] # <<>>
    /\ Top(t).pc = "layout"
    /\ LET f == Top(t)
       IN  SetTop(t, [f EXCEPT !.pc = NextPc(variant, "layout"),
                               !.discord =
                                   IF variant = "long"
                                   THEN LayoutLong(f.emoji, f.msg, f.colour,
                                                   embed_line_wrap_threshold)
                                   ELSE LayoutMinimal(f.msg, f.colour)])
    /\ UNCHANGED <<reentry_barrier, ret, calls, sinkVars, clipVars>>

\* a delivery that is tried again inside the handler when it fails
EmitExecute_retry(t) ==
    /\ stack[t] # <<>>
    /\ Top(t).pc = "execute"
    /\ LET f == [Top(t) EXCEPT !.sent = Append(@, Top(t).discord)]
       IN  \E outcome \in Outcomes("execute", {"http", "other"}) :
              SetTop(t, IF outcome = "ok"
                        THEN [f EXCEPT !.pc = NextPc(variant, "execute")]
                        ELSE Raise(variant, [f EXCEPT !.sent = Append(@, f.discord)],
                                   outcome))
    /\ UNCHANGED <<reentry_barrier, ret, calls, sinkVars, clipVars>>

\* long: discord.execute(); minimal: discord.send(...)
EmitExecute(t) ==
    /\ stack[t] # <<>>
    /\ Top(t).pc = "execute"
    /\ LET f == [Top(t) EXCEPT !.sent = Append(@, Top(t).discord)]
       IN  \E outcome \in Outcomes("execute", {"http", "other"}) :
              SetTop(t, IF outcome = "ok"
                        THEN [f EXCEPT !.pc = NextPc(variant, "execute")]
                        ELSE Raise(variant, f, outcome))
    /\ UNCHANGED <<reentry_barrier, ret, calls, sinkVars, clipVars>>

\* long:    except Exception: print(..., file=sys.stderr); self.handleError(record)
\* minimal: except HTTPException: print(..., file=sys.stderr)
\*          except Exception: self.handleError(record)
EmitExcept(t) ==
    /\ stack[t] # <<>>
    /\ Top(t).pc = "except"
    /\ LET f == Top(t)
       IN  SetTop(t, IF variant = "long"
                     THEN [f EXCEPT !.pc = "finally",
                                    !.errlines = @ + 1, !.herrs = @ + 1]
                     ELSE IF f.exc = "http"
                          THEN [f EXCEPT !.pc = "finally", !.errlines = @ + 1]
                          ELSE [f EXCEPT !.pc = "finally", !.herrs = @ + 1])
    /\ UNCHANGED <<reentry_barrier, ret, calls, sinkVars, clipVars>>

\* a guard cleared at the end of the try block instead of in finally
EmitFinally_clear_in_try(t) ==
    /\ stack[t] # <<>>
    /\ Top(t).pc = "finally"
    /\ reentry_barrier' = IF Top(t).exc = "none" THEN FALSE ELSE reentry_barrier
    /\ Pop(t, IF Top(t).escaping THEN "raised" ELSE "returned")
    /\ UNCHANGED <<calls, sinkVars, clipVars>>

\* finally: self.reentry_barrier = False
EmitFinally(t) ==
    /\ stack[t] # <<>>
    /\ Top(t).pc = "finally"
    /\ reentry_barrier' = FALSE
    /\ Pop(t, IF Top(t).escaping THEN "raised" ELSE "returned")
    /\ UNCHANGED <<calls, sinkVars, clipVars>>

\* a call of clip_content with arguments of the caller's choice
ClipCall ==
    /\ \E n \in 0..MaxClipLen, m \in 0..MaxClipMax, e \in BOOLEAN :
          \E c \in [1..n -> {"a", "b"}] :
              /\ content' = c
              /\ max_len' = m
              /\ clip_to_end' = e
              /\ clipped' = clip_content(c, m, e)
    /\ UNCHANGED <<emitVars, sinkVars>>

----------------------------------------------------------------------------
(* Configurations and inputs *)

Mapping(none, debug, error) ==
    [k \in {None, DEBUG, ERROR} |->
        IF k = None THEN none ELSE IF k = DEBUG THEN debug ELSE error]

\* DEFAULT_COLOURS and DEFAULT_EMOJIS, at the keys None, DEBUG and ERROR
DEFAULT_COLOURS == Mapping(2040357, 8947848, 14362664)
DEFAULT_EMOJIS == Mapping(<<>>, <<>>, <<"X">>)

\* mappings passed to the constructor: with the fallback key (a black colour,
\* an empty emoji, a fallback emoji), and without it
Configs ==
    { [colours |-> DEFAULT_COLOURS, emojis |-> DEFAULT_EMOJIS],
      [colours |-> Mapping(7, 0, 5), emojis |-> Mapping(<<"F">>, <<>>, <<"E">>)],
      [colours |-> [k \in {ERROR} |-> 5], emojis |-> [k \in {ERROR} |-> <<"E">>]] }

Levels == {DEBUG, ERROR, UNLISTED}

ShortMessages ==
    { <<>>,
      <<"a", "b">>,
      <<"a", "b", "c", "d">>,
      <<"a", NL, "b", "c">>,
      <<"a", NL, "b", "c", "d", "e">> }

LongMessages ==
    { Rep(<<"a", "b", "c">>, DefaultMaxLen - 4),
      Rep(<<"a", "b", "c">>, DefaultMaxLen + 1),
      Rep(<<"a", "b", NL>>, DefaultMaxLen + 4) }

AppRecords ==
    [levelno : Levels, msg : ShortMessages] \cup [levelno : {ERROR}, msg : LongMessages]

InitEmit(T) ==
    /\ threads = T
    /\ reentry_barrier = FALSE
    /\ stack = [t \in T |-> <<>>]
    /\ ret = [t \in T |-> NoRet]
    /\ calls = 0

InitClip ==
    /\ content = <<>>
    /\ max_len = DefaultMaxLen
    /\ clip_to_end = TRUE
    /\ clipped = <<>>

\* one thread logging through a sink of either file, in any configuration
Init ==
    /\ variant \in {"long", "minimal"}
    /\ \E cfg \in Configs : colours = cfg.colours /\ emojis = cfg.emojis
    /\ embed_line_wrap_threshold \in {SmallThreshold, DefaultThreshold}
    /\ records = AppRecords
    /\ failing = {"construct", "format", "execute"}
    /\ nesting = CallOutPcs
    /\ InitEmit({1})
    /\ InitClip

Next ==
    \/ \E t \in threads : \E r \in records : Call(t, r)
    \/ \E t \in threads : NestedCall(t)
    \/ \E t \in threads : EmitCheck(t)
    \/ \E t \in threads : EmitSet(t)
    \/ \E t \in threads : EmitConstruct(t)
    \/ \E t \in threads : EmitFormat(t)
    \/ \E t \in threads : EmitStyle(t)
    \/ \E t \in threads : EmitLayout(t)
    \/ \E t \in threads : EmitExecute(t)
    \/ \E t \in threads : EmitExcept(t)
    \/ \E t \in threads : EmitFinally(t)

Spec == Init /\ [][Next]_vars

\* two threads logging one record through a sink with the default mappings,
\* whose webhook client logs and may fail while it delivers
InitConc ==
    /\ variant \in {"long", "minimal"}
    /\ colours = DEFAULT_COLOURS
    /\ emojis = DEFAULT_EMOJIS
    /\ embed_line_wrap_threshold = DefaultThreshold
    /\ records = {[levelno |-> ERROR, msg |-> <<"a", "b">>]}
    /\ failing = {"execute"}
    /\ nesting = {"execute"}
    /\ InitEmit({1, 2})
    /\ InitClip

SpecConc == InitConc /\ [][Next]_vars

\* clip_content alone
InitClipOnly ==
    /\ variant = "long"
    /\ colours = DEFAULT_COLOURS
    /\ emojis = DEFAULT_EMOJIS
    /\ embed_line_wrap_threshold = DefaultThreshold
    /\ records = {}
    /\ failing = {}
    /\ nesting = {}
    /\ InitEmit({})
    /\ InitClip

SpecClip == InitClipOnly /\ [][ClipCall]_vars

----------------------------------------------------------------------------
(* Properties *)

\* the emit calls that have ended, and the frames of those still running
Ended == {ret[t] : t \in {u \in threads : ret[u].outcome # "none"}}
Running == UNION {{stack[t][i] : i \in 1..Len(stack[t])} : t \in threads}
Frames == Running \cup {e.frame : e \in Ended}

\* the reference lookup of a style mapping: the value under the severity when
\* it is a key, the value under the fallback key otherwise
RefLookup(map, levelno) == IF levelno \in DOMAIN map THEN map[levelno] ELSE map[None]

\* the emoji prefix: the emoji and one space when the emoji is not empty
RefPrefix(e) == IF e # <<>> THEN e \o <<" ">> ELSE <<>>

LastChars(s, n) == SubSeq(s, Len(s) - n + 1, Len(s))
FirstChars(s, n) == SubSeq(s, 1, n)

\* C1: no exception ever leaves emit, whatever step inside it fails.
C1_NoExceptionEscapes == \A e \in Ended : e.outcome # "raised"

\* C2: an emit invoked while an emit on the same sink is in flight returns at
\* the guard check without a send, without a diagnostic and without changing
\* the guard, and the guard stays set for as long as the outer call is in flight.
C2_NestedEmitIsNoOp ==
    [][\A t \in threads :
          /\ (/\ Len(stack[t]) >= 2
              /\ Top(t).pc = "check"
              /\ stack'[t] # stack[t])
             => /\ stack'[t] = SubSeq(stack[t], 1, Len(stack[t]) - 1)
                /\ ret'[t].outcome = "returned"
                /\ ret'[t].frame.sent = <<>>
                /\ ret'[t].frame.errlines = 0
                /\ ret'[t].frame.herrs = 0
                /\ reentry_barrier' = reentry_barrier
          /\ (stack'[t] # <<>> /\ stack'[t][1].pc \in InFlightPcs) => reentry_barrier'
      ]_vars

\* a nested emit has returned at the guard check while the outer emit delivers
C2_Witness ==
    \E t \in threads :
        /\ Len(stack[t]) = 1
        /\ stack[t][1].pc = "execute"
        /\ ret[t].outcome = "returned"
        /\ ret[t].depth = 2
        /\ ~ret[t].frame.passed
        /\ reentry_barrier

\* C3: with one thread, the guard is clear whenever no emit is on the call
\* stack, and no independent (top-level) emit is short-circuited.
C3_GuardClearWhenIdle ==
    \A t \in threads :
        /\ stack[t] = <<>> => ~reentry_barrier
        /\ (ret[t].outcome # "none" /\ ret[t].depth = 1) => ret[t].frame.passed

\* a later emit passed the guard, failed with an exception that left emit,
\* and the guard is clear again
C3_Witness ==
    \E t \in threads :
        /\ calls >= 2
        /\ stack[t] = <<>>
        /\ ret[t].outcome = "raised"
        /\ ret[t].frame.passed
        /\ ~reentry_barrier

\* C4 as claimed: an emit sends zero or one message, and zero only when the
\* guard short-circuited it.
C4_OneSendUnlessShortCircuited ==
    \A e \in Ended :
        /\ Len(e.frame.sent) \in {0, 1}
        /\ Len(e.frame.sent) = 0 <=> ~e.frame.passed

\* C4 as amended: an emit sends zero or one message; zero exactly when the
\* guard short-circuited it or a step before delivery raised.
C4_OneSendIfDeliveryReached ==
    \A e \in Ended :
        /\ Len(e.frame.sent) \in {0, 1}
        /\ Len(e.frame.sent) = 0
             <=> (~e.frame.passed \/ e.frame.stage \in {"construct", "format", "style"})

\* an emit passed the guard, its formatting failed, and it sent nothing
C4_Witness ==
    \E e \in Ended :
        e.frame.passed /\ e.frame.stage = "format" /\ e.frame.sent = <<>>

\* C5: a failing emit reports through exactly one channel: a rate-limit/HTTP
\* failure through one stderr line, any other failure through handleError or,
\* instead of it, stderr; a successful emit through neither.
C5_OneReportChannel ==
    \A e \in Ended :
        e.frame.passed =>
            /\ e.frame.exc = "none" => (e.frame.errlines = 0 /\ e.frame.herrs = 0)
            /\ e.frame.exc = "http" => (e.frame.errlines = 1 /\ e.frame.herrs = 0)
            /\ e.frame.exc = "other" => e.frame.errlines + e.frame.herrs = 1

\* C6: with mappings that contain the fallback key, the colour and the emoji
\* emit uses are the reference lookup of the record's severity.
C6_StyleIsReferenceLookup ==
    (None \in DOMAIN colours /\ None \in DOMAIN emojis) =>
        \A f \in Frames :
            (f.passed /\ f.pc \in {"layout", "execute"}) =>
                /\ f.colour = RefLookup(colours, f.record.levelno)
                /\ f.emoji = IF variant = "long"
                             THEN RefPrefix(RefLookup(emojis, f.record.levelno))
                             ELSE RefLookup(emojis, f.record.levelno)

\* the layout C7 describes, for a message and an emoji prefix
RefLayout(prefix, msg, threshold) ==
    IF ~HasNL(msg) /\ Len(msg) <= threshold
    THEN [content |-> PyNone, title |-> prefix \o msg, description |-> PyNone]
    ELSE IF MaxLineLength(msg) > threshold
         THEN [content |-> Fence \o prefix \o clip_content(msg, DefaultMaxLen, TRUE)
                             \o Fence,
               title |-> PyNone, description |-> PyNone]
         ELSE [content |-> PyNone,
               title |-> prefix \o SplitOnce(msg)[1],
               description |-> clip_content(SplitOnce(msg)[2], DefaultMaxLen, TRUE)]

\* what a composed message carries: one content field or one embed
Carried(d) ==
    IF Len(d.embeds) = 0
    THEN [content |-> d.content, title |-> PyNone, description |-> PyNone]
    ELSE [content |-> d.content, title |-> d.embeds[1].title,
          description |-> d.embeds[1].description]

ExactlyOneOfEmbedOrContent(d) ==
    /\ Len(d.embeds) \in {0, 1}
    /\ Len(d.embeds) = 1 <=> d.content = PyNone

\* C7: in the long variant the message is one embed or one content field,
\* laid out by the no-newline / longest-line rule with the emoji prefix.
C7_LongLayout ==
    (variant = "long" /\ None \in DOMAIN emojis) =>
        \A f \in Frames :
            f.sent # <<>> =>
                /\ ExactlyOneOfEmbedOrContent(f.sent[1])
                /\ Carried(f.sent[1])
                     = RefLayout(RefPrefix(RefLookup(emojis, f.record.levelno)),
                                 f.msg, embed_line_wrap_threshold)

\* the same layout rule, for the severities the emoji mapping lists
C7_LongLayoutOfListedSeverities ==
    variant = "long" =>
        \A f \in Frames :
            (f.sent # <<>> /\ f.record.levelno \in DOMAIN emojis) =>
                /\ ExactlyOneOfEmbedOrContent(f.sent[1])
                /\ Carried(f.sent[1])
                     = RefLayout(RefPrefix(emojis[f.record.levelno]),
                                 f.msg, embed_line_wrap_threshold)

\* C8 as claimed: content of length L <= M-5 is returned unchanged; longer
\* content becomes the ellipsis and exactly M characters, M+3 in all.
C8_ClippedToMaxPlusEllipsis ==
    LET L == Len(content)
        M == max_len
    IN  /\ L <= M - 5 => clipped = content
        /\ (L > M - 5 /\ clip_to_end) =>
               (Len(clipped) = M + 3 /\ clipped = Ellipsis \o LastChars(content, M))
        /\ (L > M - 5 /\ ~clip_to_end) =>
               (Len(clipped) = M + 3 /\ clipped = FirstChars(content, M) \o Ellipsis)

\* C8 as amended: content of length L <= M-5 is returned unchanged; longer
\* content becomes the ellipsis and its last (or first) min(L, M) characters,
\* and the tail policy with M = 0 keeps all of it.
C8_ClippedToMinOfLengthAndMax ==
    LET L == Len(content)
        M == max_len
        kept == IF L < M THEN L ELSE M
    IN  /\ L <= M - 5 => clipped = content
        /\ (L > M - 5 /\ clip_to_end) =>
               clipped = Ellipsis \o LastChars(content, IF M = 0 THEN L ELSE kept)
        /\ (L > M - 5 /\ ~clip_to_end) =>
               clipped = FirstChars(content, kept) \o Ellipsis
        /\ (L > M - 5 /\ L >= M /\ (M > 0 \/ ~clip_to_end)) => Len(clipped) = M + 3
        /\ (L > M - 5 /\ L < M) => Len(clipped) = L + 3

\* content between M-5 and M characters got the ellipsis and lost nothing
C8_Witness ==
    /\ max_len > 0
    /\ Len(content) = max_len - 2
    /\ clip_to_end
    /\ clipped = Ellipsis \o content

\* C9: every text field handed to the webhook client has at most 1900
\* characters.
C9_FieldsWithinLimit ==
    \A f \in Frames :
        \A i \in 1..Len(f.sent) :
            LET c == Carried(f.sent[i])
            IN  \A field \in {c.content, c.title, c.description} :
                    Len(field) <= DefaultMaxLen

\* C10: with two threads, a top-level emit is dropped at the guard check only
\* while another thread's emit is between setting and clearing the guard.
C10_DroppedOnlyWhileOtherThreadInFlight ==
    [][\A t \in threads :
          (/\ Len(stack[t]) = 1
           /\ Top(t).pc = "check"
           /\ stack'[t] = <<>>)
          => \E u \in threads \ {t} :
                \E i \in 1..Len(stack[u]) : stack[u][i].pc \in InFlightPcs
      ]_vars

\* one thread's emit nested inside its own running emit has passed the guard
\* check, and the other thread's independent record was dropped without a send
C10_Witness ==
    \E t \in threads, u \in threads :
        /\ t # u
        /\ Len(stack[t]) = 2
        /\ stack[t][1].pc \in InFlightPcs
        /\ stack[t][2].passed
        /\ stack[t][2].pc \in InFlightPcs
        /\ stack[u] = <<>>
        /\ ret[u].outcome = "returned"
        /\ ret[u].depth = 1
        /\ ~ret[u].frame.passed
        /\ ret[u].frame.sent = <<>>

====
